---- MODULE Spec2Model ----
(***************************************************************************)
(* A model of matrix.js: the sparse matrix (createSparseMatrix,             *)
(* getMatrixElement, setMatrixElement), the text codec                      *)
(* (loadMatrixFromFile, matrixToString, saveMatrixToFile), the arithmetic   *)
(* (addMatrices, subtractMatrices, multiplyMatrices) and the interactive    *)
(* routine performMatrixOperations.                                         *)
(*                                                                         *)
(* JavaScript strings are modelled as sequences of one-character strings,  *)
(* so that building a key or a line and taking it apart again are real     *)
(* computations.  Numbers are modelled as exact integers (every value the  *)
(* model uses is far inside the range in which a JavaScript number is an   *)
(* exact integer).                                                         *)
(***************************************************************************)
EXTENDS Integers, Sequences, FiniteSets

VARIABLES
    pc,         \* where the running routine stands
    fs,         \* the file system: path -> content (a string) or NoFile
    matrix1,    \* first operand
    matrix2,    \* second operand
    matrix3,    \* third operand (associativity runs only)
    created,    \* the arguments matrix1 was created with
    outcome,    \* what the last operation returned or threw
    outcome2,   \* second result (associativity runs only)
    log,        \* what the routine did that is visible outside, in order
    closed      \* whether the readline interface is closed

vars == <<pc, fs, matrix1, matrix2, matrix3, created, outcome, outcome2, log, closed>>

(***************************************************************************)
(* Strings                                                                  *)
(***************************************************************************)
DigitChars == <<"0", "1", "2", "3", "4", "5", "6", "7", "8", "9">>

IsDigit(ch) == \E d \in 1..10 : DigitChars[d] = ch

DigitValue(ch) == (CHOOSE d \in 1..10 : DigitChars[d] = ch) - 1

\* `${n}` for a non-negative integer n
RECURSIVE NatToString(_)
NatToString(n) ==
    IF n < 10 THEN <<DigitChars[n + 1]>>
    ELSE NatToString(n \div 10) \o <<DigitChars[(n % 10) + 1]>>

\* NumberToString with the sign left out
NumberToStringUnsigned(v) == IF v < 0 THEN NatToString(-v) ELSE NatToString(v)

\* `${v}` for an integer v
NumberToString(v) == IF v < 0 THEN <<"-">> \o NatToString(-v) ELSE NatToString(v)

\* the value of a run of decimal digits
RECURSIVE DigitsValue(_)
DigitsValue(s) ==
    IF Len(s) = 0 THEN 0
    ELSE 10 * DigitsValue(SubSeq(s, 1, Len(s) - 1)) + DigitValue(s[Len(s)])

\* parseInt(s) for the strings the regular expressions capture: -?\d+
parseInt(s) ==
    IF s[1] = "-" THEN 0 - DigitsValue(SubSeq(s, 2, Len(s))) ELSE DigitsValue(s)

\* Number(s) for the parts of a key
Number(s) ==
    IF Len(s) = 0 THEN 0
    ELSE IF s[1] = "-" THEN 0 - DigitsValue(SubSeq(s, 2, Len(s))) ELSE DigitsValue(s)

\* s.split(sep) for a one-character separator
RECURSIVE split(_, _)
split(s, sep) ==
    IF \A i \in 1..Len(s) : s[i] # sep THEN <<s>>
    ELSE LET i == CHOOSE j \in 1..Len(s) : s[j] = sep /\ \A k \in 1..(j - 1) : s[k] # sep
         IN  <<SubSeq(s, 1, i - 1)>> \o split(SubSeq(s, i + 1, Len(s)), sep)

WhiteSpace == {" ", "\t", "\r", "\n"}

\* s.trim()
RECURSIVE trimStart(_)
trimStart(s) ==
    IF Len(s) > 0 /\ s[1] \in WhiteSpace THEN trimStart(Tail(s)) ELSE s

RECURSIVE trimEnd(_)
trimEnd(s) ==
    IF Len(s) > 0 /\ s[Len(s)] \in WhiteSpace THEN trimEnd(SubSeq(s, 1, Len(s) - 1)) ELSE s

trim(s) == trimEnd(trimStart(s))

(***************************************************************************)
(* The sparse matrix                                                        *)
(***************************************************************************)
createSparseMatrix(numRows, numCols) ==
    [rows |-> numRows, cols |-> numCols, elements |-> <<>>]

\* `${row},${col}`
keyOf(row, col) == NumberToString(row) \o <<",">> \o NumberToString(col)

\* key in matrix.elements
hasKey(elements, key) == \E i \in 1..Len(elements) : elements[i].key = key

\* matrix.elements[key], for a key that is present
valueAt(elements, key) ==
    elements[CHOOSE i \in 1..Len(elements) : elements[i].key = key].value

\* matrix.elements[key] = value: a present key keeps its place, a new one goes last
putKey(elements, key, value) ==
    IF hasKey(elements, key)
    THEN [i \in 1..Len(elements) |->
            IF elements[i].key = key THEN [key |-> key, value |-> value] ELSE elements[i]]
    ELSE Append(elements, [key |-> key, value |-> value])

\* setMatrixElement growing an extent to the coordinate instead of one past it
setMatrixElementShort(matrix, row, col, value) ==
    [rows     |-> IF row >= matrix.rows THEN row ELSE matrix.rows,
     cols     |-> IF col >= matrix.cols THEN col ELSE matrix.cols,
     elements |-> putKey(matrix.elements, keyOf(row, col), value)]

getMatrixElement(matrix, row, col) ==
    LET key == keyOf(row, col)
    IN  IF hasKey(matrix.elements, key) THEN valueAt(matrix.elements, key) ELSE 0

setMatrixElement(matrix, row, col, value) ==
    [rows     |-> IF row >= matrix.rows THEN row + 1 ELSE matrix.rows,
     cols     |-> IF col >= matrix.cols THEN col + 1 ELSE matrix.cols,
     elements |-> putKey(matrix.elements, keyOf(row, col), value)]

\* const [row, col] = key.split(',').map(Number)
keyRow(key) == Number(split(key, ",")[1])
keyCol(key) == Number(split(key, ",")[2])

(***************************************************************************)
(* Results: a call returns a value or throws an Error with a message        *)
(***************************************************************************)
Returned(v) == [status |-> "returned", value |-> v]
Threw(msg)  == [status |-> "threw", message |-> msg]

(***************************************************************************)
(* Arithmetic                                                               *)
(***************************************************************************)
\* for (const key in matrix1.elements) setMatrixElement(result, row, col, value)
RECURSIVE copyElements(_, _, _)
copyElements(result, elements, i) ==
    IF i > Len(elements) THEN result
    ELSE LET key == elements[i].key
         IN  copyElements(setMatrixElement(result, keyRow(key), keyCol(key), elements[i].value),
                          elements, i + 1)

\* addElements with the second pass storing the value instead of adding to it
RECURSIVE addElementsOverwriting(_, _, _)
addElementsOverwriting(result, elements, i) ==
    IF i > Len(elements) THEN result
    ELSE LET key == elements[i].key
         IN  addElementsOverwriting(
                setMatrixElement(result, keyRow(key), keyCol(key), elements[i].value),
                elements, i + 1)

\* for (const key in matrix2.elements) ... currentValue + value
RECURSIVE addElements(_, _, _)
addElements(result, elements, i) ==
    IF i > Len(elements) THEN result
    ELSE LET key   == elements[i].key
             row   == keyRow(key)
             col   == keyCol(key)
             currentValue == getMatrixElement(result, row, col)
         IN  addElements(setMatrixElement(result, row, col, currentValue + elements[i].value),
                         elements, i + 1)

\* subtractElements with the second pass storing the negated value
RECURSIVE subtractElementsOverwriting(_, _, _)
subtractElementsOverwriting(result, elements, i) ==
    IF i > Len(elements) THEN result
    ELSE LET key == elements[i].key
         IN  subtractElementsOverwriting(
                setMatrixElement(result, keyRow(key), keyCol(key), 0 - elements[i].value),
                elements, i + 1)

\* for (const key in matrix2.elements) ... currentValue - value
RECURSIVE subtractElements(_, _, _)
subtractElements(result, elements, i) ==
    IF i > Len(elements) THEN result
    ELSE LET key   == elements[i].key
             row   == keyRow(key)
             col   == keyCol(key)
             currentValue == getMatrixElement(result, row, col)
         IN  subtractElements(setMatrixElement(result, row, col, currentValue - elements[i].value),
                              elements, i + 1)

\* the dimension test with the columns forgotten
SameRows(m1, m2) == m1.rows = m2.rows

\* matrix1.rows !== matrix2.rows || matrix1.cols !== matrix2.cols, negated
SameDimensions(m1, m2) == m1.rows = m2.rows /\ m1.cols = m2.cols

addMatrices(m1, m2) ==
    IF ~SameDimensions(m1, m2)
    THEN Threw([template |-> "Matrices must have the same dimensions for addition."])
    ELSE Returned(addElements(
                    copyElements(createSparseMatrix(m1.rows, m1.cols), m1.elements, 1),
                    m2.elements, 1))

subtractMatrices(m1, m2) ==
    IF ~SameDimensions(m1, m2)
    THEN Threw([template |-> "Matrices must have the same dimensions for subtraction."])
    ELSE Returned(subtractElements(
                    copyElements(createSparseMatrix(m1.rows, m1.cols), m1.elements, 1),
                    m2.elements, 1))

\* multiplyRow reading the second operand at (k, col) instead of (col, k)
RECURSIVE multiplyRowTransposed(_, _, _, _, _, _)
multiplyRowTransposed(result, m2, row, col, value, k) ==
    IF k >= m2.cols THEN result
    ELSE LET otherValue == getMatrixElement(m2, k, col)
         IN  IF otherValue # 0
             THEN multiplyRowTransposed(
                    setMatrixElement(result, row, k,
                                     getMatrixElement(result, row, k) + value * otherValue),
                    m2, row, col, value, k + 1)
             ELSE multiplyRowTransposed(result, m2, row, col, value, k + 1)

\* multiplyRow with the product stored instead of accumulated
RECURSIVE multiplyRowOverwriting(_, _, _, _, _, _)
multiplyRowOverwriting(result, m2, row, col, value, k) ==
    IF k >= m2.cols THEN result
    ELSE LET otherValue == getMatrixElement(m2, col, k)
         IN  IF otherValue # 0
             THEN multiplyRowOverwriting(
                    setMatrixElement(result, row, k, value * otherValue),
                    m2, row, col, value, k + 1)
             ELSE multiplyRowOverwriting(result, m2, row, col, value, k + 1)

\* for (let k = 0; k < matrix2.cols; k++) { ... }
RECURSIVE multiplyRow(_, _, _, _, _, _)
multiplyRow(result, m2, row, col, value, k) ==
    IF k >= m2.cols THEN result
    ELSE LET otherValue == getMatrixElement(m2, col, k)
         IN  IF otherValue # 0
             THEN multiplyRow(
                    setMatrixElement(result, row, k,
                                     getMatrixElement(result, row, k) + value * otherValue),
                    m2, row, col, value, k + 1)
             ELSE multiplyRow(result, m2, row, col, value, k + 1)

\* for (const key in matrix1.elements) { ... }
RECURSIVE multiplyElements(_, _, _, _)
multiplyElements(result, elements, m2, i) ==
    IF i > Len(elements) THEN result
    ELSE LET key == elements[i].key
         IN  multiplyElements(
                multiplyRow(result, m2, keyRow(key), keyCol(key), elements[i].value, 0),
                elements, m2, i + 1)

multiplyMatrices(m1, m2) ==
    IF m1.cols # m2.rows
    THEN Threw([template |->
            "Number of columns of first matrix must equal number of rows of second matrix."])
    ELSE Returned(multiplyElements(createSparseMatrix(m1.rows, m2.cols), m1.elements, m2, 1))

(***************************************************************************)
(* The text codec                                                           *)
(***************************************************************************)
\* the literals of the format
RowsPrefix == <<"r", "o", "w", "s", "=">>
ColsPrefix == <<"c", "o", "l", "s", "=">>

StartsWith(s, prefix) ==
    Len(s) >= Len(prefix) /\ SubSeq(s, 1, Len(prefix)) = prefix

\* the end of the longest run of characters satisfying a class that starts at
\* position i of s (i - 1 when the run is empty)
RECURSIVE digitsEnd(_, _)
digitsEnd(s, i) == IF i <= Len(s) /\ IsDigit(s[i]) THEN digitsEnd(s, i + 1) ELSE i - 1

RECURSIVE spaceEnd(_, _)
spaceEnd(s, i) == IF i <= Len(s) /\ s[i] \in WhiteSpace THEN spaceEnd(s, i + 1) ELSE i - 1

NoMatch == [matched |-> FALSE]

\* /^rows=(\d+)/.exec(line) and /^cols=(\d+)/.exec(line): null, or the captured digits
matchDimension(prefix, line) ==
    LET from == Len(prefix) + 1
        to   == digitsEnd(line, from)
    IN  IF StartsWith(line, prefix) /\ to >= from
        THEN [matched |-> TRUE, groups |-> <<SubSeq(line, from, to)>>]
        ELSE NoMatch

\* /^\((\d+),\s*(\d+),\s*(-?\d+)\)/.exec(line): null, or the three captures
matchElement(line) ==
    LET r1 == 2
        r2 == digitsEnd(line, r1)
        c1 == spaceEnd(line, r2 + 2) + 1
        c2 == digitsEnd(line, c1)
        s1 == spaceEnd(line, c2 + 2) + 1
        v1 == IF s1 <= Len(line) /\ line[s1] = "-" THEN s1 + 1 ELSE s1
        v2 == digitsEnd(line, v1)
    IN  IF /\ Len(line) >= 1 /\ line[1] = "("
           /\ r2 >= r1
           /\ r2 + 1 <= Len(line) /\ line[r2 + 1] = ","
           /\ c2 >= c1
           /\ c2 + 1 <= Len(line) /\ line[c2 + 1] = ","
           /\ v2 >= v1
           /\ v2 + 1 <= Len(line) /\ line[v2 + 1] = ")"
        THEN [matched |-> TRUE,
              groups  |-> <<SubSeq(line, r1, r2), SubSeq(line, c1, c2), SubSeq(line, s1, v2)>>]
        ELSE NoMatch

\* the messages of the errors loadMatrixFromFile throws
NotEnoughLines(path) ==
    [template |-> "File ${matrixFilePath} does not contain enough lines for matrix dimensions",
     file     |-> path]

InvalidDimension(path) ==
    [template |-> "Invalid dimension format in file ${matrixFilePath}. Expected 'rows=X' and 'cols=Y'",
     file     |-> path]

InvalidLine(path, lineNumber, line) ==
    [template |-> "Invalid format at line ${i + 1} in file ${matrixFilePath}: ${line}",
     line     |-> lineNumber,
     file     |-> path,
     text     |-> line]

FileNotFound(path) ==
    [template |-> "File not found: ${matrixFilePath}", file |-> path]

\* for (let i = 2; i < lines.length; i++) { ... }; n is i + 1, the line's number
RECURSIVE parseElements(_, _, _, _)
parseElements(sparseMatrix, lines, n, path) ==
    IF n > Len(lines) THEN Returned(sparseMatrix)
    ELSE LET line  == trim(lines[n])
             match == matchElement(line)
         IN  IF line = <<>> THEN parseElements(sparseMatrix, lines, n + 1, path)
             ELSE IF ~match.matched THEN Threw(InvalidLine(path, n, line))
             ELSE parseElements(
                    setMatrixElement(sparseMatrix, parseInt(match.groups[1]),
                                     parseInt(match.groups[2]), parseInt(match.groups[3])),
                    lines, n + 1, path)

\* the body of loadMatrixFromFile once the file was read
parseMatrix(fileContent, path) ==
    LET lines == split(fileContent, "\n")
    IN  IF Len(lines) < 2 THEN Threw(NotEnoughLines(path))
        ELSE LET rowMatch == matchDimension(RowsPrefix, trim(lines[1]))
                 colMatch == matchDimension(ColsPrefix, trim(lines[2]))
             IN  IF ~rowMatch.matched \/ ~colMatch.matched
                 THEN Threw(InvalidDimension(path))
                 ELSE parseElements(
                        createSparseMatrix(parseInt(rowMatch.groups[1]),
                                           parseInt(colMatch.groups[1])),
                        lines, 3, path)

\* a file of the file system
NoFile == [exists |-> FALSE]
File(content) == [exists |-> TRUE, content |-> content]

loadMatrixFromFile(files, path) ==
    IF ~files[path].exists THEN Threw(FileNotFound(path))
    ELSE parseMatrix(files[path].content, path)

\* for (const key in matrix.elements) result += `(${row}, ${col}, ${value})\n`
RECURSIVE elementLines(_, _)
elementLines(elements, i) ==
    IF i > Len(elements) THEN <<>>
    ELSE LET parts == split(elements[i].key, ",")
         IN  <<"(">> \o parts[1] \o <<",", " ">> \o parts[2] \o <<",", " ">>
               \o NumberToString(elements[i].value) \o <<")", "\n">>
               \o elementLines(elements, i + 1)

matrixToString(matrix) ==
    trim(RowsPrefix \o NumberToString(matrix.rows) \o <<"\n">>
         \o ColsPrefix \o NumberToString(matrix.cols) \o <<"\n">>
         \o elementLines(matrix.elements, 1))

\* fs.writeFileSync(filePath, content): the file system after the write
saveMatrixToFile(files, matrix, filePath) ==
    [files EXCEPT ![filePath] = File(matrixToString(matrix))]

(***************************************************************************)
(* Values shared by the runs                                                *)
(***************************************************************************)
Unset     == [unset |-> TRUE]       \* a variable not assigned yet
NoOutcome == [status |-> "none"]    \* no operation was applied yet

\* (row, col) comes after the key stored last: the runs that need two or three
\* operands fill each one in row-major order
RowMajorNext(matrix, row, col) ==
    \/ Len(matrix.elements) = 0
    \/ LET last == matrix.elements[Len(matrix.elements)].key
       IN  keyRow(last) < row \/ (keyRow(last) = row /\ keyCol(last) < col)

(***************************************************************************)
(* Arithmetic runs: two matrices are made by create and set, then add,      *)
(* subtract or multiply is applied to them.                                 *)
(***************************************************************************)
MaxDim    == 1      \* create is called with extents 0..MaxDim
MaxStored == 3      \* an operand is given at most this many stored elements

Index  == 0..1          \* the coordinates written into an operand
Values == {-2, 0}       \* the values written into an operand

InitArith ==
    /\ pc = "first"
    /\ \E r \in 0..MaxDim, k \in 0..MaxDim :
          /\ matrix1 = createSparseMatrix(r, k)
          /\ created = [rows |-> r, cols |-> k]
    /\ matrix2 = Unset
    /\ matrix3 = Unset
    /\ outcome = NoOutcome
    /\ outcome2 = NoOutcome
    /\ fs = <<>>
    /\ log = <<>>
    /\ closed = FALSE

SetFirst(row, col, value) ==
    /\ pc = "first"
    /\ matrix1' = setMatrixElement(matrix1, row, col, value)
    /\ UNCHANGED <<pc, fs, matrix2, matrix3, created, outcome, outcome2, log, closed>>

CreateSecond(numRows, numCols) ==
    /\ pc = "first"
    /\ matrix2' = createSparseMatrix(numRows, numCols)
    /\ pc' = "second"
    /\ UNCHANGED <<fs, matrix1, matrix3, created, outcome, outcome2, log, closed>>

SetSecond(row, col, value) ==
    /\ pc = "second"
    /\ matrix2' = setMatrixElement(matrix2, row, col, value)
    /\ UNCHANGED <<pc, fs, matrix1, matrix3, created, outcome, outcome2, log, closed>>

Add ==
    /\ pc = "second"
    /\ outcome' = addMatrices(matrix1, matrix2)
    /\ pc' = "added"
    /\ UNCHANGED <<fs, matrix1, matrix2, matrix3, created, outcome2, log, closed>>

Subtract ==
    /\ pc = "second"
    /\ outcome' = subtractMatrices(matrix1, matrix2)
    /\ pc' = "subtracted"
    /\ UNCHANGED <<fs, matrix1, matrix2, matrix3, created, outcome2, log, closed>>

Multiply ==
    /\ pc = "second"
    /\ outcome' = multiplyMatrices(matrix1, matrix2)
    /\ pc' = "multiplied"
    /\ UNCHANGED <<fs, matrix1, matrix2, matrix3, created, outcome2, log, closed>>

\* subtract(add(matrix1, matrix2), matrix2)
SubtractAfterAdd ==
    /\ pc = "added"
    /\ outcome.status = "returned"
    /\ outcome2' = subtractMatrices(outcome.value, matrix2)
    /\ pc' = "restored"
    /\ UNCHANGED <<fs, matrix1, matrix2, matrix3, created, outcome, log, closed>>

NextArith ==
    \/ \E row \in Index, col \in Index, value \in Values :
          /\ SetFirst(row, col, value)
          /\ Len(matrix1.elements) < MaxStored
          /\ RowMajorNext(matrix1, row, col)
    \/ \E numRows \in 0..MaxDim, numCols \in 0..MaxDim : CreateSecond(numRows, numCols)
    \/ \E row \in Index, col \in Index, value \in Values :
          /\ SetSecond(row, col, value)
          /\ Len(matrix2.elements) < MaxStored
          /\ RowMajorNext(matrix2, row, col)
    \/ Add
    \/ Subtract
    \/ Multiply
    \/ SubtractAfterAdd

SpecArith == InitArith /\ [][NextArith]_vars

(***************************************************************************)
(* Properties of the arithmetic runs                                        *)
(***************************************************************************)
Probe == 0..2       \* the coordinates read back: every one written, and one beyond

DimensionMessages ==
    {"Matrices must have the same dimensions for addition.",
     "Matrices must have the same dimensions for subtraction.",
     "Number of columns of first matrix must equal number of rows of second matrix."}

IsDimensionMismatch(o) ==
    o.status = "threw" /\ o.message.template \in DimensionMessages

\* every stored coordinate of a matrix is one of those read back
StoredInProbe(matrix) ==
    \A i \in 1..Len(matrix.elements) :
        keyRow(matrix.elements[i].key) \in Probe /\ keyCol(matrix.elements[i].key) \in Probe

EqualExtents(m1, m2) == m1.rows = m2.rows /\ m1.cols = m2.cols

IsStored(matrix, row, col) == hasKey(matrix.elements, keyOf(row, col))

\* the sum over j in 0..n-1 of m1[row, j] * m2[j, col]
RECURSIVE DotProduct(_, _, _, _, _)
DotProduct(m1, m2, row, col, n) ==
    IF n = 0 THEN 0
    ELSE DotProduct(m1, m2, row, col, n - 1)
           + getMatrixElement(m1, row, n - 1) * getMatrixElement(m2, n - 1, col)

\* C1: when matrix1.cols = matrix2.rows, multiply returns a matrix of extents
\* (matrix1.rows, matrix2.cols) whose value at every coordinate (i, k) is the sum
\* over j < matrix1.cols of matrix1[i, j] * matrix2[j, k]; the sum takes every
\* term, also those the code skips because matrix2[j, k] is 0.
C1_MultiplyIsMatrixProduct ==
    (pc = "multiplied" /\ matrix1.cols = matrix2.rows) =>
        /\ outcome.status = "returned"
        /\ outcome.value.rows = matrix1.rows
        /\ outcome.value.cols = matrix2.cols
        /\ StoredInProbe(outcome.value)
        /\ \A i \in Probe, k \in Probe :
              getMatrixElement(outcome.value, i, k)
                = DotProduct(matrix1, matrix2, i, k, matrix1.cols)

\* a product entry that is the sum of two non-zero terms, beside an entry for
\* which a term was skipped
C1_Witness ==
    /\ pc = "multiplied"
    /\ outcome.status = "returned"
    /\ getMatrixElement(matrix1, 0, 0) * getMatrixElement(matrix2, 0, 0) # 0
    /\ getMatrixElement(matrix1, 0, 1) * getMatrixElement(matrix2, 1, 0) # 0
    /\ getMatrixElement(outcome.value, 0, 0) # 0
    /\ matrix2.cols = 2
    /\ getMatrixElement(matrix2, 0, 1) = 0

\* C2: when the operands have equal rows and equal cols, add (subtract) returns a
\* matrix with the extents of matrix1 whose value at every coordinate is the sum
\* (difference) of the operands' values there, whether the coordinate is stored
\* in both operands, in one of them or in neither.
C2_AddSubtractPointwise ==
    /\ (pc = "added" /\ EqualExtents(matrix1, matrix2)) =>
          /\ outcome.status = "returned"
          /\ EqualExtents(outcome.value, matrix1)
          /\ StoredInProbe(outcome.value)
          /\ \A r \in Probe, k \in Probe :
                getMatrixElement(outcome.value, r, k)
                  = getMatrixElement(matrix1, r, k) + getMatrixElement(matrix2, r, k)
    /\ (pc = "subtracted" /\ EqualExtents(matrix1, matrix2)) =>
          /\ outcome.status = "returned"
          /\ EqualExtents(outcome.value, matrix1)
          /\ StoredInProbe(outcome.value)
          /\ \A r \in Probe, k \in Probe :
                getMatrixElement(outcome.value, r, k)
                  = getMatrixElement(matrix1, r, k) - getMatrixElement(matrix2, r, k)

\* a sum whose operands store one coordinate in common (both values non-zero),
\* one coordinate each alone, and leave one coordinate unstored
C2_Witness ==
    /\ pc = "added"
    /\ outcome.status = "returned"
    /\ \E r \in Index, k \in Index :
          /\ IsStored(matrix1, r, k) /\ IsStored(matrix2, r, k)
          /\ getMatrixElement(matrix1, r, k) # 0 /\ getMatrixElement(matrix2, r, k) # 0
    /\ \E r \in Index, k \in Index : IsStored(matrix1, r, k) /\ ~IsStored(matrix2, r, k)
    /\ \E r \in Index, k \in Index : ~IsStored(matrix1, r, k) /\ IsStored(matrix2, r, k)
    /\ \E r \in Index, k \in Index : ~IsStored(matrix1, r, k) /\ ~IsStored(matrix2, r, k)

\* C3: add and subtract throw the dimension error exactly when the operands'
\* current rows or cols differ, multiply exactly when matrix1.cols differs from
\* matrix2.rows; a call that throws returns no matrix, and otherwise it returns one.
C3_DimensionErrorExactly ==
    /\ pc \in {"added", "subtracted"} =>
          /\ IsDimensionMismatch(outcome)
                <=> (matrix1.rows # matrix2.rows \/ matrix1.cols # matrix2.cols)
          /\ outcome.status = "returned"
                <=> (matrix1.rows = matrix2.rows /\ matrix1.cols = matrix2.cols)
    /\ pc = "multiplied" =>
          /\ IsDimensionMismatch(outcome) <=> matrix1.cols # matrix2.rows
          /\ outcome.status = "returned" <=> matrix1.cols = matrix2.rows
    /\ pc \in {"added", "subtracted", "multiplied"} =>
          /\ outcome.status \in {"returned", "threw"}
          /\ outcome.status = "threw" => "value" \notin DOMAIN outcome
          /\ outcome.status = "returned" => "value" \in DOMAIN outcome

\* an addition refused because a stored element grew one operand's columns only
C3_Witness ==
    /\ pc = "added"
    /\ IsDimensionMismatch(outcome)
    /\ matrix1.rows = matrix2.rows
    /\ matrix1.cols > created.cols
    /\ matrix1.cols # matrix2.cols

\* C5: for operands with equal extents, subtract(add(matrix1, matrix2), matrix2)
\* returns a matrix with the extents of matrix1 and the value of matrix1 at every
\* coordinate.
C5_SubtractUndoesAdd ==
    /\ (pc = "added" /\ EqualExtents(matrix1, matrix2)) =>
          /\ outcome.status = "returned"
          /\ EqualExtents(outcome.value, matrix2)
    /\ pc = "restored" =>
          /\ outcome2.status = "returned"
          /\ EqualExtents(outcome2.value, matrix1)
          /\ StoredInProbe(outcome2.value)
          /\ \A r \in Probe, k \in Probe :
                getMatrixElement(outcome2.value, r, k) = getMatrixElement(matrix1, r, k)

\* a round trip through a coordinate both operands store, and one only matrix2 stores
C5_Witness ==
    /\ pc = "restored"
    /\ outcome2.status = "returned"
    /\ \E r \in Index, k \in Index :
          /\ IsStored(matrix1, r, k) /\ IsStored(matrix2, r, k)
          /\ getMatrixElement(matrix1, r, k) # 0 /\ getMatrixElement(matrix2, r, k) # 0
    /\ \E r \in Index, k \in Index :
          ~IsStored(matrix1, r, k) /\ getMatrixElement(matrix2, r, k) # 0

(***************************************************************************)
(* Matrix runs: one matrix is made by create and any sequence of set, then  *)
(* saved to a file and loaded back.  log keeps the writes made.             *)
(***************************************************************************)
MaxCreate == 1      \* create is called with extents 0..MaxCreate
MaxWrites == 2      \* set is called at most this many times

CodecIndex  == {0, 4}           \* the coordinates written
CodecValues == {-12, 0, 9}      \* the values written

MatrixPath == "m.txt"

InitMatrix ==
    /\ pc = "first"
    /\ \E r \in 0..MaxCreate, k \in 0..MaxCreate :
          /\ matrix1 = createSparseMatrix(r, k)
          /\ created = [rows |-> r, cols |-> k]
    /\ matrix2 = Unset
    /\ matrix3 = Unset
    /\ outcome = NoOutcome
    /\ outcome2 = NoOutcome
    /\ fs = [p \in {MatrixPath} |-> NoFile]
    /\ log = <<>>
    /\ closed = FALSE

Store(row, col, value) ==
    /\ pc = "first"
    /\ Len(log) < MaxWrites
    /\ matrix1' = setMatrixElement(matrix1, row, col, value)
    /\ log' = Append(log, [row |-> row, col |-> col, value |-> value])
    /\ UNCHANGED <<pc, fs, matrix2, matrix3, created, outcome, outcome2, closed>>

Save ==
    /\ pc = "first"
    /\ fs' = saveMatrixToFile(fs, matrix1, MatrixPath)
    /\ pc' = "saved"
    /\ UNCHANGED <<matrix1, matrix2, matrix3, created, outcome, outcome2, log, closed>>

Load ==
    /\ pc = "saved"
    /\ outcome' = loadMatrixFromFile(fs, MatrixPath)
    /\ pc' = "loaded"
    /\ UNCHANGED <<fs, matrix1, matrix2, matrix3, created, outcome2, log, closed>>

NextMatrix ==
    \/ \E row \in CodecIndex, col \in CodecIndex, value \in CodecValues : Store(row, col, value)
    \/ Save
    \/ Load

SpecMatrix == InitMatrix /\ [][NextMatrix]_vars

(***************************************************************************)
(* Parse runs: a file holding any text of a few lines is loaded.            *)
(***************************************************************************)
MaxLines == 4       \* the file holds at most this many lines

\* the lines a file is made of: well-formed ones, a blank one, and malformed ones
LinePool ==
    {<<"r", "o", "w", "s", "=", "2">>,
     <<"c", "o", "l", "s", "=", "2">>,
     <<"(", "0", ",", "0", ",", "5", ")">>,
     <<"(", "1", ",", " ", "1", ",", " ", "-", "3", ")">>,
     <<>>,
     <<"c", "o", "l", "u", "n", "s", "=", "2">>,
     <<"r", "o", "w", "s", "=", "2", "x">>,
     <<"(", "0", ",", "0", ",", "5", ")", "x">>,
     <<"(", "0", ",", "0">>,
     <<" ", "(", "1", ",", "1", ",", "3", ")", " ", "\r">>}

RECURSIVE join(_)
join(lines) ==
    IF Len(lines) = 0 THEN <<>>
    ELSE IF Len(lines) = 1 THEN lines[1]
    ELSE lines[1] \o <<"\n">> \o join(Tail(lines))

InitParse ==
    /\ pc = "saved"
    /\ \/ fs = [p \in {MatrixPath} |-> NoFile]
       \/ \E n \in 0..MaxLines : \E lines \in [1..n -> LinePool] :
             fs = [p \in {MatrixPath} |-> File(join(lines))]
    /\ matrix1 = Unset
    /\ matrix2 = Unset
    /\ matrix3 = Unset
    /\ created = Unset
    /\ outcome = NoOutcome
    /\ outcome2 = NoOutcome
    /\ log = <<>>
    /\ closed = FALSE

NextParse == Load

SpecParse == InitParse /\ [][NextParse]_vars

(***************************************************************************)
(* Associativity runs: three matrices whose extents chain are made by       *)
(* create and set, then multiplied in both groupings.                       *)
(***************************************************************************)
MaxChainStored == 2     \* each of the three matrices is given at most this many elements

ChainValues == {-1, 0, 1}   \* the values written into the three matrices

ChainDims  == 1..2      \* the columns of matrix1 and of matrix2
ChainOuter == {1}       \* the rows of matrix1 and the columns of matrix3

InitChain ==
    /\ pc = "first"
    /\ \E r \in ChainOuter, k \in ChainDims :
          /\ matrix1 = createSparseMatrix(r, k)
          /\ created = [rows |-> r, cols |-> k]
    /\ matrix2 = Unset
    /\ matrix3 = Unset
    /\ outcome = NoOutcome
    /\ outcome2 = NoOutcome
    /\ fs = <<>>
    /\ log = <<>>
    /\ closed = FALSE

CreateThird(numRows, numCols) ==
    /\ pc = "second"
    /\ matrix3' = createSparseMatrix(numRows, numCols)
    /\ pc' = "third"
    /\ UNCHANGED <<fs, matrix1, matrix2, created, outcome, outcome2, log, closed>>

SetThird(row, col, value) ==
    /\ pc = "third"
    /\ matrix3' = setMatrixElement(matrix3, row, col, value)
    /\ UNCHANGED <<pc, fs, matrix1, matrix2, created, outcome, outcome2, log, closed>>

\* multiply(multiply(m1, m2), m3): an error of the inner call is the error of the whole
multiplyLeft(m1, m2, m3) ==
    LET inner == multiplyMatrices(m1, m2)
    IN  IF inner.status = "threw" THEN inner ELSE multiplyMatrices(inner.value, m3)

\* multiply(m1, multiply(m2, m3))
multiplyRight(m1, m2, m3) ==
    LET inner == multiplyMatrices(m2, m3)
    IN  IF inner.status = "threw" THEN inner ELSE multiplyMatrices(m1, inner.value)

MultiplyLeftFirst ==
    /\ pc = "third"
    /\ outcome' = multiplyLeft(matrix1, matrix2, matrix3)
    /\ pc' = "left"
    /\ UNCHANGED <<fs, matrix1, matrix2, matrix3, created, outcome2, log, closed>>

MultiplyRightFirst ==
    /\ pc = "left"
    /\ outcome2' = multiplyRight(matrix1, matrix2, matrix3)
    /\ pc' = "both"
    /\ UNCHANGED <<fs, matrix1, matrix2, matrix3, created, outcome, log, closed>>

\* a write inside the extents of a matrix that holds fewer than MaxChainStored elements
ChainWrite(matrix, row, col) ==
    /\ row < matrix.rows
    /\ col < matrix.cols
    /\ Len(matrix.elements) < MaxChainStored
    /\ RowMajorNext(matrix, row, col)

NextChain ==
    \/ \E row \in Index, col \in Index, value \in ChainValues :
          SetFirst(row, col, value) /\ ChainWrite(matrix1, row, col)
    \/ \E numCols \in ChainDims : CreateSecond(matrix1.cols, numCols)
    \/ \E row \in Index, col \in Index, value \in ChainValues :
          SetSecond(row, col, value) /\ ChainWrite(matrix2, row, col)
    \/ \E numCols \in ChainOuter : CreateThird(matrix2.cols, numCols)
    \/ \E row \in Index, col \in Index, value \in ChainValues :
          SetThird(row, col, value) /\ ChainWrite(matrix3, row, col)
    \/ MultiplyLeftFirst
    \/ MultiplyRightFirst

SpecChain == InitChain /\ [][NextChain]_vars

(***************************************************************************)
(* Properties of the matrix runs                                            *)
(***************************************************************************)
MaxOf(S) == CHOOSE x \in S : \A y \in S : y <= x

WritesTo(row, col) == {i \in 1..Len(log) : log[i].row = row /\ log[i].col = col}

EntriesAt(matrix, row, col) ==
    {i \in 1..Len(matrix.elements) :
        keyRow(matrix.elements[i].key) = row /\ keyCol(matrix.elements[i].key) = col}

\* the stored element mapping of a matrix: its set of (key, value) entries
EntrySet(matrix) == {matrix.elements[i] : i \in 1..Len(matrix.elements)}

SameMapping(m1, m2) ==
    /\ m1.rows = m2.rows
    /\ m1.cols = m2.cols
    /\ Len(m1.elements) = Len(m2.elements)
    /\ EntrySet(m1) = EntrySet(m2)

\* C10: after create(r0, c0) and any sequence of set, rows is the larger of r0 and
\* 1 + the largest row written and cols the larger of c0 and 1 + the largest
\* column written (so no set lowers them); every written coordinate has exactly one
\* entry, holding the value written there last; nothing else is stored; and every
\* stored coordinate lies inside the extents.
C10_SetGrowsAndOverwrites ==
    pc = "first" =>
        /\ matrix1.rows = MaxOf({created.rows} \cup {log[i].row + 1 : i \in 1..Len(log)})
        /\ matrix1.cols = MaxOf({created.cols} \cup {log[i].col + 1 : i \in 1..Len(log)})
        /\ \A i \in 1..Len(matrix1.elements) :
              LET r == keyRow(matrix1.elements[i].key)
                  k == keyCol(matrix1.elements[i].key)
              IN  /\ r < matrix1.rows
                  /\ k < matrix1.cols
                  /\ WritesTo(r, k) # {}
        /\ \A r \in CodecIndex, k \in CodecIndex :
              IF WritesTo(r, k) = {}
              THEN EntriesAt(matrix1, r, k) = {} /\ getMatrixElement(matrix1, r, k) = 0
              ELSE /\ Cardinality(EntriesAt(matrix1, r, k)) = 1
                   /\ getMatrixElement(matrix1, r, k) = log[MaxOf(WritesTo(r, k))].value

\* set(create(1, 1), 4, 4, 9) gave rows = 5 and cols = 5
C10_Witness ==
    /\ pc = "first"
    /\ created = [rows |-> 1, cols |-> 1]
    /\ log = <<[row |-> 4, col |-> 4, value |-> 9]>>
    /\ matrix1.rows = 5
    /\ matrix1.cols = 5
    /\ getMatrixElement(matrix1, 4, 4) = 9

\* the injective maps of 1..n onto itself
LineOrders(n) == {f \in [1..n -> 1..n] : \A i, j \in 1..n : i # j => f[i] # f[j]}

\* a saved text with its element lines put in another order
Reordered(content, f) ==
    LET lines == split(content, "\n")
    IN  join(<<lines[1], lines[2]>> \o [i \in 1..(Len(lines) - 2) |-> lines[2 + f[i]]])

\* C6: the text matrixToString gives for a matrix made by create and set is parsed
\* back to a matrix with the same rows, cols and stored element mapping, also with
\* its element lines in any other order.
C6_SaveLoadRoundTrip ==
    /\ pc = "saved" =>
          LET content == fs[MatrixPath].content
              n       == Len(split(content, "\n")) - 2
          IN  /\ fs[MatrixPath].exists
              /\ n = Len(matrix1.elements)
              /\ \A f \in LineOrders(n) :
                    LET parsed == parseMatrix(Reordered(content, f), MatrixPath)
                    IN  /\ parsed.status = "returned"
                        /\ SameMapping(parsed.value, matrix1)
    /\ pc = "loaded" =>
          /\ outcome.status = "returned"
          /\ SameMapping(outcome.value, matrix1)

\* a round trip of a matrix that stores a negative value and an explicit zero
C6_Witness ==
    /\ pc = "loaded"
    /\ outcome.status = "returned"
    /\ Len(matrix1.elements) = 2
    /\ \E i \in 1..2 : matrix1.elements[i].value < 0
    /\ \E i \in 1..2 : matrix1.elements[i].value = 0

(***************************************************************************)
(* Properties of the parse runs                                             *)
(***************************************************************************)
FormatTemplates ==
    {NotEnoughLines(MatrixPath).template,
     InvalidDimension(MatrixPath).template,
     InvalidLine(MatrixPath, 0, <<>>).template}

IsFormatError(o) == o.status = "threw" /\ o.message.template \in FormatTemplates

AllDigits(s) == Len(s) >= 1 /\ \A i \in 1..Len(s) : IsDigit(s[i])

\* the whole of s is prefix followed by a non-negative integer
WholeDimension(prefix, s) ==
    StartsWith(s, prefix) /\ AllDigits(SubSeq(s, Len(prefix) + 1, Len(s)))

\* the whole of s is optional white space followed by an integer
SpacedInteger(s, signed) ==
    LET t == trimStart(s)
    IN  \/ AllDigits(t)
        \/ signed /\ Len(t) >= 2 /\ t[1] = "-" /\ AllDigits(Tail(t))

\* the whole of s is (<digits>,<digits>,<integer>), white space allowed after a comma
WholeElement(s) ==
    /\ Len(s) >= 2 /\ s[1] = "(" /\ s[Len(s)] = ")"
    /\ \E p \in 2..Len(s), q \in 2..Len(s) :
          /\ p < q /\ s[p] = "," /\ s[q] = ","
          /\ AllDigits(SubSeq(s, 2, p - 1))
          /\ SpacedInteger(SubSeq(s, p + 1, q - 1), FALSE)
          /\ SpacedInteger(SubSeq(s, q + 1, Len(s) - 1), TRUE)

\* the number of the line a format error is about: 1 for a missing or malformed
\* rows line, 2 for the cols line, else the first malformed element line
OffendingLine(content) ==
    LET lines == split(content, "\n")
    IN  IF ~matchDimension(RowsPrefix, trim(lines[1])).matched THEN 1
        ELSE IF Len(lines) < 2 \/ ~matchDimension(ColsPrefix, trim(lines[2])).matched THEN 2
        ELSE CHOOSE n \in 3..Len(lines) :
                /\ trim(lines[n]) # <<>> /\ ~matchElement(trim(lines[n])).matched
                /\ \A m \in 3..(n - 1) :
                      trim(lines[m]) = <<>> \/ matchElement(trim(lines[m])).matched

\* C7: every format error loadMatrixFromFile throws names the file and the 1-based
\* number of the offending line.
C7_FormatErrorNamesLine ==
    (pc = "loaded" /\ IsFormatError(outcome)) =>
        /\ "file" \in DOMAIN outcome.message
        /\ outcome.message.file = MatrixPath
        /\ "line" \in DOMAIN outcome.message
        /\ outcome.message.line = OffendingLine(fs[MatrixPath].content)

\* what C8 calls malformed: fewer than two lines, a first or second line that is
\* not wholly a dimension, or a later non-blank line that is not wholly an element
Malformed(content) ==
    LET lines == split(content, "\n")
    IN  \/ Len(lines) < 2
        \/ ~WholeDimension(RowsPrefix, trim(lines[1]))
        \/ ~WholeDimension(ColsPrefix, trim(lines[2]))
        \/ \E n \in 3..Len(lines) : trim(lines[n]) # <<>> /\ ~WholeElement(trim(lines[n]))

\* C8: loading a malformed text throws a format error and returns no matrix.
C8_MalformedIsRejected ==
    (pc = "loaded" /\ fs[MatrixPath].exists /\ Malformed(fs[MatrixPath].content)) =>
        /\ IsFormatError(outcome)
        /\ "value" \notin DOMAIN outcome

(***************************************************************************)
(* Properties of the associativity runs                                     *)
(***************************************************************************)
\* C4 as stated: both groupings of a chain give matrices with the same rows, cols
\* and stored element mapping.
C4_SameStoredMapping ==
    pc = "both" =>
        /\ outcome.status = "returned"
        /\ outcome2.status = "returned"
        /\ SameMapping(outcome.value, outcome2.value)

\* C4 amended: both groupings of a chain give matrices with the same rows and cols
\* and the same value at every coordinate.
C4_SameValues ==
    pc = "both" =>
        /\ outcome.status = "returned"
        /\ outcome2.status = "returned"
        /\ outcome.value.rows = outcome2.value.rows
        /\ outcome.value.cols = outcome2.value.cols
        /\ StoredInProbe(outcome.value)
        /\ StoredInProbe(outcome2.value)
        /\ \A r \in Probe, k \in Probe :
              getMatrixElement(outcome.value, r, k) = getMatrixElement(outcome2.value, r, k)

\* a chain through a 2 x 2 middle matrix with a non-zero product
C4_Witness ==
    /\ pc = "both"
    /\ outcome.status = "returned"
    /\ matrix2.rows = 2
    /\ matrix2.cols = 2
    /\ \E r \in Probe : getMatrixElement(outcome.value, r, 0) # 0

(***************************************************************************)
(* performMatrixOperations: the interactive routine.  Each action is the    *)
(* part of the async function that runs when one question is answered, with *)
(* its catch and finally blocks.                                            *)
(***************************************************************************)
\* the files present when the routine starts
FileA == matrixToString(
            setMatrixElement(setMatrixElement(createSparseMatrix(2, 2), 0, 0, 5), 1, 1, 3))
FileB == matrixToString(
            setMatrixElement(setMatrixElement(createSparseMatrix(2, 2), 0, 0, 1), 0, 1, -2))
FileC == matrixToString(setMatrixElement(createSparseMatrix(2, 3), 1, 2, 4))
FileBad == <<"r", "o", "w", "s", "=", "2", "\n", "c", "o", "l", "s", "=", "2", "\n", "(", "0", ",", "0">>

\* the answers given to the three path questions
Paths == {"a.txt", "b.txt", "c.txt", "bad.txt", "missing.txt", "nodir/out.txt"}

\* the answers given to the menu question
Choices == {"a", "b", "c", "d", "", "constructor"}

InitialFiles ==
    [p \in Paths |->
        CASE p = "a.txt"   -> File(FileA)
          [] p = "b.txt"   -> File(FileB)
          [] p = "c.txt"   -> File(FileC)
          [] p = "bad.txt" -> File(FileBad)
          [] OTHER         -> NoFile]

\* fs.writeFileSync throws for a path inside a directory that does not exist
Writable(path) == path # "nodir/out.txt"

WriteError(path) ==
    [template |-> "ENOENT: no such file or directory, open '${filePath}'", file |-> path]

\* matrixOperations[operationChoice]: an entry of the table, a property every
\* object inherits (which has no method), or undefined
matrixOperations ==
    [a |-> [name |-> "addition", method |-> "addMatrices"],
     b |-> [name |-> "subtraction", method |-> "subtractMatrices"],
     c |-> [name |-> "multiplication", method |-> "multiplyMatrices"]]

InheritedProperties == {"constructor"}

lookupOperation(choice) ==
    IF choice \in DOMAIN matrixOperations THEN [defined |-> TRUE, entry |-> matrixOperations[choice]]
    ELSE IF choice \in InheritedProperties THEN [defined |-> TRUE, entry |-> [inherited |-> TRUE]]
    ELSE [defined |-> FALSE]

\* operation.method(matrix1, matrix2)
callMethod(entry, m1, m2) ==
    IF "method" \notin DOMAIN entry
    THEN Threw([template |-> "operation.method is not a function"])
    ELSE CASE entry.method = "addMatrices"      -> addMatrices(m1, m2)
           [] entry.method = "subtractMatrices" -> subtractMatrices(m1, m2)
           [] entry.method = "multiplyMatrices" -> multiplyMatrices(m1, m2)

\* what the routine does that is visible outside
Printed(text)   == [event |-> "print", text |-> text]
Asked(query)    == [event |-> "question", text |-> query]
Answered(text)  == [event |-> "answer", text |-> text]
Read(path)      == [event |-> "read", path |-> path]
Announced(name) == [event |-> "output", name |-> name]
Wrote(path)     == [event |-> "write", path |-> path]
Reported(msg)   == [event |-> "error", message |-> msg]
Closed          == [event |-> "close"]

Menu ==
    <<Printed("Menu :"), Printed("a: addition"), Printed("b: subtraction"),
      Printed("c: multiplication")>>

\* the catch block and the finally block without rl.close()
FailLeavingOpen(steps, message) ==
    /\ log' = log \o steps \o <<Reported(message)>>
    /\ closed' = closed
    /\ pc' = "done"

\* the catch block, then the finally block
Fail(steps, message) ==
    /\ log' = log \o steps \o <<Reported(message), Closed>>
    /\ closed' = TRUE
    /\ pc' = "done"

Init ==
    /\ pc = "askFirst"
    /\ fs = InitialFiles
    /\ matrix1 = Unset
    /\ matrix2 = Unset
    /\ matrix3 = Unset
    /\ created = Unset
    /\ outcome = NoOutcome
    /\ outcome2 = NoOutcome
    /\ log = Menu \o <<Asked("Enter the file path for the first matrix: ")>>
    /\ closed = FALSE

AnswerFirstPath(path) ==
    /\ pc = "askFirst"
    /\ LET loaded == loadMatrixFromFile(fs, path)
           steps  == <<Answered(path), Read(path)>>
       IN  IF loaded.status = "threw"
           THEN Fail(steps, loaded.message) /\ UNCHANGED matrix1
           ELSE /\ matrix1' = loaded.value
                /\ log' = log \o steps \o <<Asked("Enter the file path for the second matrix: ")>>
                /\ pc' = "askSecond"
                /\ UNCHANGED closed
    /\ UNCHANGED <<fs, matrix2, matrix3, created, outcome, outcome2>>

AnswerSecondPath(path) ==
    /\ pc = "askSecond"
    /\ LET loaded == loadMatrixFromFile(fs, path)
           steps  == <<Answered(path), Read(path)>>
       IN  IF loaded.status = "threw"
           THEN Fail(steps, loaded.message) /\ UNCHANGED matrix2
           ELSE /\ matrix2' = loaded.value
                /\ log' = log \o steps \o <<Asked("Choose an option (a, b, or c): ")>>
                /\ pc' = "askChoice"
                /\ UNCHANGED closed
    /\ UNCHANGED <<fs, matrix1, matrix3, created, outcome, outcome2>>

AnswerChoice(choice) ==
    /\ pc = "askChoice"
    /\ LET operation == lookupOperation(choice)
           steps     == <<Answered(choice)>>
       IN  IF ~operation.defined
           THEN Fail(steps, [template |-> "Invalid option."]) /\ UNCHANGED outcome
           ELSE LET resultMatrix == callMethod(operation.entry, matrix1, matrix2)
                IN  IF resultMatrix.status = "threw"
                    THEN Fail(steps, resultMatrix.message) /\ UNCHANGED outcome
                    ELSE /\ outcome' = resultMatrix
                         /\ log' = log \o steps
                                     \o <<Announced(operation.entry.name),
                                          Asked("Enter the file path to save the result: ")>>
                         /\ pc' = "askOutput"
                         /\ UNCHANGED closed
    /\ UNCHANGED <<fs, matrix1, matrix2, matrix3, created, outcome2>>

AnswerOutputPath(path) ==
    /\ pc = "askOutput"
    /\ LET steps == <<Answered(path)>>
       IN  IF ~Writable(path)
           THEN Fail(steps, WriteError(path)) /\ UNCHANGED fs
           ELSE /\ fs' = saveMatrixToFile(fs, outcome.value, path)
                /\ log' = log \o steps \o <<Wrote(path), Closed>>
                /\ closed' = TRUE
                /\ pc' = "done"
    /\ UNCHANGED <<matrix1, matrix2, matrix3, created, outcome, outcome2>>

Next ==
    \/ \E path \in Paths : AnswerFirstPath(path)
    \/ \E path \in Paths : AnswerSecondPath(path)
    \/ \E choice \in Choices : AnswerChoice(choice)
    \/ \E path \in Paths : AnswerOutputPath(path)

Spec == Init /\ [][Next]_vars

(***************************************************************************)
(* Properties of the interactive routine                                    *)
(***************************************************************************)
EventsOf(kinds) == {i \in 1..Len(log) : log[i].event \in kinds}

\* the events of the kinds given, in the order they happened
RECURSIVE Trace(_, _)
Trace(kinds, n) ==
    IF n = 0 THEN <<>>
    ELSE IF log[n].event \in kinds THEN Append(Trace(kinds, n - 1), log[n].event)
    ELSE Trace(kinds, n - 1)

\* the answers given up to position n of the log, in order
RECURSIVE Answers(_)
Answers(n) ==
    IF n = 0 THEN <<>>
    ELSE IF log[n].event = "answer" THEN Append(Answers(n - 1), log[n].text)
    ELSE Answers(n - 1)

\* the answer given last before position n of the log
LastAnswer(n) ==
    log[MaxOf({i \in 1..n : log[i].event = "answer"})].text

\* the message of the error the step that failed threw: the step is the one the
\* last answer started
FailureMessage(n) ==
    LET answer == LastAnswer(n)
    IN  IF matrix1 = Unset \/ matrix2 = Unset THEN loadMatrixFromFile(InitialFiles, answer).message
        ELSE IF outcome = NoOutcome
        THEN IF ~lookupOperation(answer).defined THEN [template |-> "Invalid option."]
             ELSE callMethod(lookupOperation(answer).entry, matrix1, matrix2).message
        ELSE WriteError(answer)

\* C9: the output file is written at most once, and only after two files were read
\* and parsed and a chosen operation returned a result, in that order; a step that
\* fails is reported with its message, after which nothing is written and nothing
\* else runs but the closing of the prompt; and the routine is either waiting for
\* an answer or done with the prompt closed.
C9_WriteOnlyAfterSuccess ==
    /\ Cardinality(EventsOf({"write"})) <= 1
    /\ \A w \in EventsOf({"write"}) :
          /\ Trace({"read", "output", "write", "error"}, Len(log))
                = <<"read", "read", "output", "write">>
          /\ Len(Answers(Len(log))) = 4
          /\ matrix1 = loadMatrixFromFile(InitialFiles, Answers(Len(log))[1]).value
          /\ matrix2 = loadMatrixFromFile(InitialFiles, Answers(Len(log))[2]).value
          /\ Answers(Len(log))[3] \in {"a", "b", "c"}
          /\ outcome.status = "returned"
          /\ outcome = callMethod(matrixOperations[Answers(Len(log))[3]], matrix1, matrix2)
          /\ log[w].path = Answers(Len(log))[4]
          /\ fs = [InitialFiles EXCEPT ![log[w].path] = File(matrixToString(outcome.value))]
    /\ EventsOf({"write"}) = {} => fs = InitialFiles
    /\ \A e \in EventsOf({"error"}) :
          /\ EventsOf({"write"}) = {}
          /\ e = Len(log) - 1
          /\ log[e].message = FailureMessage(e)
    /\ Cardinality(EventsOf({"error"})) <= 1
    /\ closed <=> pc = "done"
    /\ pc = "done" <=> EventsOf({"write", "error"}) # {}
    /\ pc = "done" => log[Len(log)] = Closed
    /\ pc # "done" => log[Len(log)].event = "question"
    /\ EventsOf({"close"}) = IF pc = "done" THEN {Len(log)} ELSE {}

\* a run that wrote its result
C9_Witness ==
    /\ pc = "done"
    /\ EventsOf({"write"}) # {}
    /\ closed
    /\ \E p \in Paths : fs[p] # InitialFiles[p]

====
